---- MODULE Spec2Model ----
(***************************************************************************)
(* Model of aws-transcode (src/index.js): one invocation of                *)
(* transcode(key, outputs, config) against the two collaborators           *)
(* (S3.headObject, ElasticTranscoder.createJob / readJob).                 *)
(*                                                                         *)
(* JavaScript values are encoded as follows.                               *)
(*   - an optional field of an object is a record field that is present   *)
(*     or absent (tested with DOMAIN);                                     *)
(*   - an optional scalar is <<>> (undefined) or <<v>>;                    *)
(*   - the value a promise settles with is a tagged record, see JSFalse,   *)
(*     JSNumber, JSUndefined;                                              *)
(*   - a string built by a template literal is the sequence of its parts.  *)
(***************************************************************************)
EXTENDS Integers, Sequences, FiniteSets, TLC

\* ------------------------------------------------------------------ bounds
MaxOutputs == 2
MaxPolls == 2

\* ---------------------------------------------------------- input domains
InputKeys == {"in/a.avi"}
StartValues == {<<>>, <<0>>, <<5>>}
DurationValues == {<<>>, <<12>>}
Buckets == {<<>>, <<"BUCKET">>}
ProgressCallbacks == {"none", "function", "throwing"}
PipelineIds == {"PIPELINEID"}
JobIds == {"TESTID"}

\* the first argument of transcode: a bare key string, or an object
\* { key, start?, duration? }
StringInput(k) == [t |-> "string", s |-> k]
ObjectInput(k, st, du) == [t |-> "object", key |-> k, start |-> st, duration |-> du]
Inputs ==
  {StringInput(k) : k \in InputKeys}
    \cup {ObjectInput(k, st, du) : k \in InputKeys, st \in StartValues, du \in DurationValues}

\* the output descriptors { key, presetId, thumbnailPattern? } a call may list:
\* without a thumbnail pattern, with one, and with an empty one
Descriptors ==
  {[key |-> "out/1.mp4", presetId |-> "P1"],
   [key |-> "out/2.mp4", presetId |-> "P2", thumbnailPattern |-> "thumb_{count}"],
   [key |-> "out/3.mp4", presetId |-> "P1", thumbnailPattern |-> ""]}

\* the output lists of at most n descriptors with pairwise distinct keys
RECURSIVE OutputLists(_)
OutputLists(n) ==
  IF n = 0 THEN {<<>>}
  ELSE LET shorter == OutputLists(n - 1)
           longest == {q \in shorter : Len(q) = n - 1}
           fresh(q) == {d \in Descriptors : \A i \in 1..Len(q) : q[i].key # d.key}
       IN  shorter \cup UNION {{Append(q, d) : d \in fresh(q)} : q \in longest}

\* ------------------------------------------------- collaborator responses
NonTerminalStatuses == {"Submitted", "Progressing"}
TerminalStatuses == {"Complete", "Error", "Canceled"}
HeadResults == {"ok", "NotFound", "NetworkingError"}
ServiceError == [message |-> <<"ServiceUnavailable">>, code |-> <<"ServiceUnavailable">>]
ThrottlingError == [message |-> <<"Rate exceeded">>, code |-> <<"ThrottlingException">>]
ServiceErrors == {ServiceError, ThrottlingError}
CallbackError == [message |-> <<"onProgress failed">>, code |-> <<>>]

\* readJob answers { Job: { Id, Status, Output?: { DurationMillis?, StatusDetail? } } }
JobOutputs ==
  {[Key |-> "out/1.mp4", DurationMillis |-> d] : d \in {0, 123}}
    \cup {[Key |-> "out/1.mp4", StatusDetail |-> d] : d \in {"", "ERRORDETAILS"}}
Jobs ==
  {[Status |-> s] : s \in NonTerminalStatuses \cup TerminalStatuses}
    \cup {[Status |-> "Complete", Output |-> o] :
            o \in {j \in JobOutputs : "DurationMillis" \in DOMAIN j}}
    \cup {[Status |-> "Error", Output |-> o] :
            o \in {j \in JobOutputs : "StatusDetail" \in DOMAIN j}}
ReadResponses ==
  {[ok |-> TRUE, Job |-> j] : j \in Jobs} \cup {[ok |-> FALSE, error |-> e] : e \in ServiceErrors}
CreateResponses ==
  {[ok |-> TRUE, Id |-> i] : i \in JobIds} \cup {[ok |-> FALSE, error |-> e] : e \in ServiceErrors}

\* ------------------------------------------------------ settled values
JSFalse == [t |-> "boolean", v |-> 0]
JSUndefined == [t |-> "undefined", v |-> 0]
JSNumber(n) == [t |-> "number", v |-> n]

Pending == [kind |-> "pending"]
Resolved(v) == [kind |-> "resolved", value |-> v]
Rejected(e) == [kind |-> "rejected", error |-> e]

VARIABLES
  key,            \* first argument of transcode
  outputs,        \* second argument of transcode
  config,         \* third argument: checkExistsInBucket, onProgress, pipelineId
  pc,             \* where the invocation is suspended
  headCalls,      \* headObject requests issued, in issue order
  headResults,    \* per output: "skipped", "pending" or the answer of its headObject
  headOrder,      \* indices of the settled checks of the running filter, in settling order
  createCalls,    \* createJob requests issued
  createResults,  \* answers of the settled createJob calls
  jobId,          \* <<>> or <<id>> returned by createJob
  waits,          \* number of delay(pollInterval) started
  readCalls,      \* readJob requests issued
  reads,          \* answers of the settled readJob calls
  progress,       \* arguments onProgress was invoked with
  outcome,        \* how the promise returned by transcode settled
  \* several invocations against the same collaborators
  calls,          \* per invocation: its arguments, locals, logs and outcome
  instances,      \* per AwsTranscoder instance: the invocation whose config object
                  \* its this.config refers to (0: not constructed)
  jobsCreated,    \* number of jobs the transcoding service has created
  \* the existence filter run repeatedly against one bucket
  store,          \* keys of the objects that exist in the bucket
  storeChanged,   \* an object was put or deleted since the first run started
  filterOutputs,  \* the outputs the filter is called with
  filterConfig,   \* this.config of the instance the filter runs on
  filterPc,       \* "idle" between runs, "checking" while headObject calls are out
  filterResults,  \* per output of the running filter: its headObject answer
  filterOrder,    \* indices of the settled headObject calls, in settling order
  filterFailed,   \* some headObject call failed for another reason than absence
  filterReturned  \* the lists the finished runs returned

solo == <<key, outputs, config, pc, headCalls, headResults, headOrder,
          createCalls, createResults, jobId, waits, readCalls, reads, progress, outcome>>
conc == <<calls, instances, jobsCreated>>
refilter == <<store, storeChanged, filterOutputs, filterConfig, filterPc, filterResults,
              filterOrder, filterFailed, filterReturned>>
vars == <<solo, conc, refilter>>

\* --------------------------------------------------------------- helpers
\* the fields of the config object the code reads
Configs == [checkExistsInBucket : Buckets, onProgress : ProgressCallbacks,
            pipelineId : PipelineIds]

\* `${key}` in a template literal: a string is itself, an object is coerced
TemplateString(k) == IF k.t = "string" THEN k.s ELSE "[object Object]"

\* const { Output: output = {} } = job
OutputOf(job) == IF "Output" \in DOMAIN job THEN job.Output ELSE <<>>

\* const { DurationMillis: duration } = output
DurationOf(output) ==
  IF "DurationMillis" \in DOMAIN output THEN JSNumber(output.DurationMillis) ELSE JSUndefined

\* statusDetails ? ... : '' : undefined and '' are falsy
HasStatusDetails(output) == "StatusDetail" \in DOMAIN output /\ output.StatusDetail # ""

\* ---------------------------------------------------------- existence filter
\* checkExists up to its first await: without a bucket it answers false at once
IssuesHeadObjectMutant(cfg) == TRUE
IssuesHeadObject(cfg) == cfg.checkExistsInBucket # <<>>

\* checkExists after headObject settled: true on success, false on any error
CheckExistsMutant(result) == result # "NotFound"
CheckExists(result) == result = "ok"

\* the reduce of maybeRemoveExistingOutputs: exists ? acc : [...acc, output]
RECURSIVE MaybeRemoveExistingOutputsMutant(_, _)
MaybeRemoveExistingOutputsMutant(outs, results) ==
  IF outs = <<>> THEN <<>>
  ELSE LET n == Len(outs)
           acc == MaybeRemoveExistingOutputsMutant(SubSeq(outs, 1, n - 1), SubSeq(results, 1, n - 1))
       IN  IF CheckExists(results[n]) THEN acc ELSE <<outs[n]>> \o acc
RECURSIVE MaybeRemoveExistingOutputs(_, _)
MaybeRemoveExistingOutputs(outs, results) ==
  IF outs = <<>> THEN <<>>
  ELSE LET n == Len(outs)
           acc == MaybeRemoveExistingOutputs(SubSeq(outs, 1, n - 1), SubSeq(results, 1, n - 1))
       IN  IF CheckExists(results[n]) THEN acc ELSE Append(acc, outs[n])

\* the promise chain the reduce builds: every callback awaits the previous
\* promise (await acc) before it appends, so the list is built in index order
\* in whatever order the checks settled
FilteredOutputsMutant(outs, results, order) ==
  LET Retained(i) == ~CheckExists(results[i])
      settled == SelectSeq(order, Retained)
  IN  IF order = <<>> THEN MaybeRemoveExistingOutputs(outs, results)
      ELSE [j \in 1..Len(settled) |-> outs[settled[j]]]
FilteredOutputs(outs, results, order) == MaybeRemoveExistingOutputs(outs, results)

\* await this.maybeRemoveExistingOutputs(outputs): the promise the reduce
\* returns settles once every checkExists has
ChecksSettledMutant(results) == \E i \in 1..Len(results) : results[i] # "pending"
ChecksSettled(results) == \A i \in 1..Len(results) : results[i] # "pending"

\* if (!filteredOutputs.length) return false
NothingToTranscodeMutant(filtered) == FALSE
NothingToTranscodeOffByOne(filtered) == Len(filtered) <= 1
NothingToTranscode(filtered) == Len(filtered) = 0

\* ------------------------------------------------------------ createJob
\* ({ key, presetId, thumbnailPattern }) =>
\*   ({ Key, PresetId, ...(thumbnailPattern && { ThumbnailPattern }) })
SubmittedOutputMutant(o) ==
  IF "thumbnailPattern" \in DOMAIN o
    THEN [Key |-> o.key, PresetId |-> o.presetId, ThumbnailPattern |-> o.thumbnailPattern]
    ELSE [Key |-> o.key, PresetId |-> o.presetId]
SubmittedOutput(o) ==
  IF "thumbnailPattern" \in DOMAIN o /\ o.thumbnailPattern # ""
    THEN [Key |-> o.key, PresetId |-> o.presetId, ThumbnailPattern |-> o.thumbnailPattern]
    ELSE [Key |-> o.key, PresetId |-> o.presetId]

CreateJobParams(k, outs, cfg) ==
  [Input |-> [Key |-> k],
   PipelineId |-> cfg.pipelineId,
   Outputs |-> [i \in 1..Len(outs) |-> SubmittedOutput(outs[i])]]

\* const { Job: { Id: jobId } = {} } = await ...createJob(params).promise():
\* the rejection is rethrown by the await and transcode has no catch
CreateJobFailedMutant(err) == Rejected([message |-> <<"createJob failed">>, code |-> <<>>])
CreateJobFailed(err) == Rejected(err)

\* ------------------------------------------------------------- poll loop
\* const { Job: job } = await ...readJob({ Id: jobId }).promise(): the
\* rejection is rethrown through checkJobStatus and waitForTranscoderJob
ReadJobFailedMutant(err) == Rejected([message |-> <<"readJob failed">>, code |-> <<>>])
ReadJobFailed(err) == Rejected(err)

FailedError(k, output) ==
  [message |-> <<"Transcode failed for \"", TemplateString(k), "\"">>
                 \o (IF HasStatusDetails(output) THEN <<"\n", output.StatusDetail>> ELSE <<>>),
   code |-> <<>>]

CancelledErrorMutant(k) ==
  [message |-> <<"Transcode cancelled for \"", TemplateString(k), "\".">>, code |-> <<>>]
CancelledError(k) ==
  [message |-> <<"Transcode cancelled for \"", TemplateString(k), "\".">>, code |-> <<"CANCELLED">>]

\* typeof onProgress === 'function'
IsFunction(cb) == cb # "none"

\* the switch of checkJobStatus, applied to the Job a readJob call answered:
\* what it throws or returns, and the arguments it passes to onProgress
CheckJobStatusMutant(k, job, cfg) ==
  LET output == OutputOf(job)
      notify == IF IsFunction(cfg.onProgress) THEN <<[status |-> job.Status]>> ELSE <<>>
  IN  CASE job.Status = "Error" ->
             [throws |-> TRUE, error |-> FailedError(k, output), notified |-> <<>>]
        [] job.Status = "Canceled" ->
             [throws |-> TRUE, error |-> CancelledError(k), notified |-> <<>>]
        [] job.Status = "Complete" ->
             [throws |-> FALSE, value |-> DurationOf(output), notified |-> notify]
        [] OTHER ->
             IF cfg.onProgress = "throwing"
               THEN [throws |-> TRUE, error |-> CallbackError, notified |-> notify]
               ELSE [throws |-> FALSE, value |-> JSFalse, notified |-> notify]
CheckJobStatusSwallows(k, job, cfg) ==
  LET output == OutputOf(job)
      notify == IF IsFunction(cfg.onProgress) THEN <<[status |-> job.Status]>> ELSE <<>>
  IN  CASE job.Status = "Error" ->
             [throws |-> TRUE, error |-> FailedError(k, output), notified |-> <<>>]
        [] job.Status = "Canceled" ->
             [throws |-> TRUE, error |-> CancelledError(k), notified |-> <<>>]
        [] job.Status = "Complete" ->
             [throws |-> FALSE, value |-> DurationOf(output), notified |-> <<>>]
        [] OTHER ->
             [throws |-> FALSE, value |-> JSFalse, notified |-> notify]
CheckJobStatus(k, job, cfg) ==
  LET output == OutputOf(job)
      notify == IF IsFunction(cfg.onProgress) THEN <<[status |-> job.Status]>> ELSE <<>>
  IN  CASE job.Status = "Error" ->
             [throws |-> TRUE, error |-> FailedError(k, output), notified |-> <<>>]
        [] job.Status = "Canceled" ->
             [throws |-> TRUE, error |-> CancelledError(k), notified |-> <<>>]
        [] job.Status = "Complete" ->
             [throws |-> FALSE, value |-> DurationOf(output), notified |-> <<>>]
        [] OTHER ->
             IF cfg.onProgress = "throwing"
               THEN [throws |-> TRUE, error |-> CallbackError, notified |-> notify]
               ELSE [throws |-> FALSE, value |-> JSFalse, notified |-> notify]

\* if (status !== false) return status
LoopReturnsMutant(status) == status.t = "number" /\ status.v # 0
LoopReturnsAlways(status) == TRUE
LoopReturns(status) == status # JSFalse

\* ----------------------------------------------------------------- state
TypeOK ==
  /\ key \in Inputs
  /\ outputs \in OutputLists(MaxOutputs)
  /\ config \in Configs
  /\ pc \in {"start", "filtering", "creating", "waiting", "reading", "done"}
  /\ waits \in 0..(MaxPolls + 1)
  /\ outcome.kind \in {"pending", "resolved", "rejected"}

Init ==
  /\ key \in Inputs
  /\ outputs \in OutputLists(MaxOutputs)
  /\ config \in Configs
  /\ pc = "start"
  /\ headCalls = <<>>
  /\ headResults = <<>>
  /\ headOrder = <<>>
  /\ createCalls = <<>>
  /\ createResults = <<>>
  /\ jobId = <<>>
  /\ waits = 0
  /\ readCalls = <<>>
  /\ reads = <<>>
  /\ progress = <<>>
  /\ outcome = Pending
  /\ calls = <<>>
  /\ instances = <<>>
  /\ jobsCreated = 0
  /\ store = {}
  /\ storeChanged = FALSE
  /\ filterOutputs = <<>>
  /\ filterConfig = [checkExistsInBucket |-> <<>>]
  /\ filterPc = "idle"
  /\ filterResults = <<>>
  /\ filterOrder = <<>>
  /\ filterFailed = FALSE
  /\ filterReturned = <<>>

\* transcode() up to its first suspension: the reduce starts the existence
\* check of every output, each issuing its headObject when a bucket is set
Transcode ==
  /\ pc = "start"
  /\ pc' = "filtering"
  /\ IF IssuesHeadObject(config)
       THEN /\ headCalls' = [i \in 1..Len(outputs) |->
                               [Bucket |-> config.checkExistsInBucket, Key |-> outputs[i].key]]
            /\ headResults' = [i \in 1..Len(outputs) |-> "pending"]
       ELSE /\ headCalls' = <<>>
            /\ headResults' = [i \in 1..Len(outputs) |-> "skipped"]
  /\ UNCHANGED <<key, outputs, config, headOrder, createCalls, createResults, jobId, waits,
                 readCalls, reads, progress, outcome>>
  /\ UNCHANGED <<conc, refilter>>

\* one headObject call settles, in any order
HeadObjectReturns(i, result) ==
  /\ pc = "filtering"
  /\ i \in 1..Len(headResults)
  /\ headResults[i] = "pending"
  /\ headResults' = [headResults EXCEPT ![i] = result]
  /\ headOrder' = Append(headOrder, i)
  /\ UNCHANGED <<key, outputs, config, pc, headCalls, createCalls, createResults, jobId,
                 waits, readCalls, reads, progress, outcome>>
  /\ UNCHANGED <<conc, refilter>>

\* every check has settled: transcode() resumes with the filtered outputs and
\* either returns false or issues createJob
FilterSettled ==
  /\ pc = "filtering"
  /\ ChecksSettled(headResults)
  /\ LET filteredOutputs == FilteredOutputs(outputs, headResults, headOrder)
     IN  IF NothingToTranscode(filteredOutputs)
           THEN /\ outcome' = Resolved(JSFalse)
                /\ pc' = "done"
                /\ UNCHANGED createCalls
           ELSE /\ createCalls' = Append(createCalls, CreateJobParams(key, filteredOutputs, config))
                /\ pc' = "creating"
                /\ UNCHANGED outcome
  /\ headOrder' = <<>>
  /\ UNCHANGED <<key, outputs, config, headCalls, headResults, createResults, jobId, waits,
                 readCalls, reads, progress>>
  /\ UNCHANGED <<conc, refilter>>

\* createJob settles: on success the poll loop starts its first delay
CreateJobReturns(resp) ==
  /\ pc = "creating"
  /\ IF resp.ok
       THEN /\ jobId' = <<resp.Id>>
            /\ waits' = waits + 1
            /\ pc' = "waiting"
            /\ UNCHANGED outcome
       ELSE /\ outcome' = CreateJobFailed(resp.error)
            /\ pc' = "done"
            /\ UNCHANGED <<jobId, waits>>
  /\ createResults' = Append(createResults, resp)
  /\ UNCHANGED <<key, outputs, config, headCalls, headResults, headOrder, createCalls,
                 readCalls, reads, progress>>
  /\ UNCHANGED <<conc, refilter>>

\* delay(pollInterval) elapsed: checkJobStatus issues readJob({ Id: jobId })
DelayElapsedMutant ==
  /\ pc = "waiting"
  /\ readCalls' = readCalls \o <<[Id |-> jobId[1]], [Id |-> jobId[1]]>>
  /\ pc' = "reading"
  /\ UNCHANGED <<key, outputs, config, headCalls, headResults, headOrder, createCalls,
                 createResults, jobId, waits, reads, progress, outcome>>
  /\ UNCHANGED <<conc, refilter>>
DelayElapsed ==
  /\ pc = "waiting"
  /\ readCalls' = Append(readCalls, [Id |-> jobId[1]])
  /\ pc' = "reading"
  /\ UNCHANGED <<key, outputs, config, headCalls, headResults, headOrder, createCalls,
                 createResults, jobId, waits, reads, progress, outcome>>
  /\ UNCHANGED <<conc, refilter>>

NonTerminalReads ==
  Cardinality({i \in 1..Len(reads) : reads[i].ok /\ reads[i].Job.Status \in NonTerminalStatuses})

\* readJob settles: checkJobStatus classifies the status and the loop
\* returns, throws or starts the next delay
ReadJobReturns(resp) ==
  /\ pc = "reading"
  /\ Len(reads) <= MaxPolls
  /\ (resp.ok /\ resp.Job.Status \in NonTerminalStatuses) => NonTerminalReads < MaxPolls
  /\ reads' = Append(reads, resp)
  /\ IF ~resp.ok
       THEN /\ outcome' = ReadJobFailed(resp.error)
            /\ pc' = "done"
            /\ UNCHANGED <<waits, progress>>
       ELSE LET r == CheckJobStatus(key, resp.Job, config)
            IN  /\ progress' = progress \o r.notified
                /\ IF r.throws
                     THEN /\ outcome' = Rejected(r.error)
                          /\ pc' = "done"
                          /\ UNCHANGED waits
                     ELSE IF LoopReturns(r.value)
                       THEN /\ outcome' = Resolved(r.value)
                            /\ pc' = "done"
                            /\ UNCHANGED waits
                       ELSE /\ waits' = waits + 1
                            /\ pc' = "waiting"
                            /\ UNCHANGED outcome
  /\ UNCHANGED <<key, outputs, config, headCalls, headResults, headOrder, createCalls,
                 createResults, jobId, readCalls>>
  /\ UNCHANGED <<conc, refilter>>

Next ==
  \/ Transcode
  \/ \E i \in 1..MaxOutputs, result \in HeadResults : HeadObjectReturns(i, result)
  \/ FilterSettled
  \/ \E resp \in CreateResponses : CreateJobReturns(resp)
  \/ DelayElapsed
  \/ \E resp \in ReadResponses : ReadJobReturns(resp)

Spec == Init /\ [][Next]_vars

\* ============================================================== properties
LastRead == reads[Len(reads)]
LastStatusIs(status) == reads # <<>> /\ LastRead.ok /\ LastRead.Job.Status = status

\* the key string the caller named, in either form of the first argument
InputKey == IF key.t = "string" THEN key.s ELSE key.key

\* a message (the sequence of its parts) contains the string s
Contains(message, s) == s = "" \/ \E i \in 1..Len(message) : message[i] = s

\* the existence filter has run to its end
Filtered == pc \notin {"start", "filtering"}

\* indices of the outputs whose existence check did not succeed, and the
\* j-th smallest of them
NotExisting == {i \in 1..Len(headResults) : headResults[i] # "ok"}
NthNotExisting(j) == CHOOSE i \in NotExisting : Cardinality({m \in NotExisting : m < i}) = j - 1

\* indices of the reads that observed a non-terminal status, and the j-th
NonTerminalAt == {i \in 1..Len(reads) : reads[i].ok /\ reads[i].Job.Status \notin TerminalStatuses}
NthNonTerminal(j) == CHOOSE i \in NonTerminalAt : Cardinality({m \in NonTerminalAt : m < i}) = j - 1

\* C1: when a check bucket is configured and every headObject succeeded,
\* transcode resolves to false and neither createJob nor readJob is called.
AllOutputsExist ==
  /\ config.checkExistsInBucket # <<>>
  /\ pc # "start"
  /\ \A i \in 1..Len(outputs) : headResults[i] = "ok"
C1_AllExistResolvesFalse ==
  AllOutputsExist =>
    /\ createCalls = <<>>
    /\ readCalls = <<>>
    /\ pc \in {"filtering", "done"}
    /\ pc = "done" => outcome = Resolved(JSFalse)
C1_Witness ==
  AllOutputsExist /\ Len(outputs) = 2 /\ Len(headCalls) = 2 /\ outcome = Resolved(JSFalse)

\* C2: with a check bucket and at least one output whose check did not
\* succeed, the Outputs of the single createJob request are exactly those
\* outputs, in their original relative order.
C2_SubmitsOnlyNotExisting ==
  (config.checkExistsInBucket # <<>> /\ Filtered /\ NotExisting # {}) =>
    /\ Len(createCalls) = 1
    /\ LET submitted == createCalls[1].Outputs
       IN  /\ Len(submitted) = Cardinality(NotExisting)
           /\ \A j \in 1..Len(submitted) :
                /\ submitted[j].Key = outputs[NthNotExisting(j)].key
                /\ submitted[j].PresetId = outputs[NthNotExisting(j)].presetId
           /\ \A j \in 1..Len(submitted), i \in 1..Len(outputs) :
                headResults[i] = "ok" => submitted[j].Key # outputs[i].key
C2_Witness ==
  /\ config.checkExistsInBucket # <<>>
  /\ Len(outputs) = 2
  /\ headResults = <<"ok", "NotFound">>
  /\ Len(createCalls) = 1
  /\ createCalls[1].Outputs[1].Key = outputs[2].key

\* C3: k non-terminal reads followed by a read Complete with DurationMillis d
\* resolve the call to d after exactly k+1 readJob calls, and no readJob
\* follows the terminal read.
CompleteWithDuration ==
  /\ LastStatusIs("Complete")
  /\ "Output" \in DOMAIN LastRead.Job
  /\ "DurationMillis" \in DOMAIN LastRead.Job.Output
C3_CompleteResolvesDuration ==
  CompleteWithDuration =>
    /\ pc = "done"
    /\ outcome = Resolved(JSNumber(LastRead.Job.Output.DurationMillis))
    /\ NonTerminalAt = 1..(Len(reads) - 1)
    /\ Len(readCalls) = Cardinality(NonTerminalAt) + 1
C3_Witness ==
  /\ CompleteWithDuration
  /\ Len(reads) = 3
  /\ LastRead.Job.Output.DurationMillis = 0
  /\ outcome = Resolved(JSNumber(0))

\* C4: a read that observes Error rejects the call, with no further read,
\* with an error whose message names the input key (for a bare key string and
\* for an object input alike) and contains the job's StatusDetail if any.
C4_ErrorNamesKeyAndDetail ==
  LastStatusIs("Error") =>
    /\ pc = "done"
    /\ outcome.kind = "rejected"
    /\ Len(readCalls) = Len(reads)
    /\ Contains(outcome.error.message, InputKey)
    /\ LET output == OutputOf(LastRead.Job)
       IN  "StatusDetail" \in DOMAIN output =>
             Contains(outcome.error.message, output.StatusDetail)

\* C5: a read that observes Canceled rejects with an error of code CANCELLED,
\* and the rejection for a read that observes Error never has that code.
C5_CancelledCode ==
  /\ LastStatusIs("Canceled") =>
       outcome.kind = "rejected" /\ outcome.error.code = <<"CANCELLED">>
  /\ LastStatusIs("Error") =>
       outcome.kind = "rejected" /\ outcome.error.code # <<"CANCELLED">>
C5_Witness ==
  /\ LastStatusIs("Canceled")
  /\ Len(reads) = 2
  /\ outcome.kind = "rejected"
  /\ outcome.error.code = <<"CANCELLED">>

\* C6: a configured onProgress is invoked once per read that observes a
\* non-terminal status, with that status, in observation order and before the
\* next read is issued, and never for a terminal read; for the reads
\* Progressing, Progressing, Complete(123) it is invoked twice with
\* Progressing and the call resolves to 123.
ProgressingTwiceThenComplete ==
  /\ Len(reads) = 3
  /\ \A i \in 1..2 : reads[i].ok /\ reads[i].Job.Status = "Progressing"
  /\ CompleteWithDuration
  /\ LastRead.Job.Output.DurationMillis = 123
C6_ProgressPerNonTerminalRead ==
  IsFunction(config.onProgress) =>
    /\ Len(progress) = Cardinality(NonTerminalAt)
    /\ \A j \in 1..Len(progress) :
         progress[j] = [status |-> reads[NthNonTerminal(j)].Job.Status]
    /\ Len(readCalls) > Len(reads) => Len(progress) = Len(readCalls) - 1
    /\ ProgressingTwiceThenComplete =>
         /\ progress = <<[status |-> "Progressing"], [status |-> "Progressing"]>>
         /\ outcome = Resolved(JSNumber(123))
C6_Witness ==
  /\ config.onProgress = "function"
  /\ ProgressingTwiceThenComplete
  /\ Len(progress) = 2
  /\ outcome = Resolved(JSNumber(123))

\* C7: a call that resolves, resolves with false or with a non-negative
\* integer duration, whatever the collaborators answered.
C7_ResolvesFalseOrDuration ==
  outcome.kind = "resolved" =>
    \/ outcome.value = JSFalse
    \/ outcome.value.t = "number" /\ outcome.value.v \in Nat

\* C8: Input.Key of the createJob request is the input's key string, for a
\* bare key string and for an object input { key, start?, duration? }.
C8_InputKeyIsKeyString ==
  \A c \in 1..Len(createCalls) : createCalls[c].Input.Key = StringInput(InputKey)

\* C9: Input of the createJob request has a TimeSpan iff start > 0 or a
\* duration is provided; in it StartTime is present iff start > 0 and Duration
\* iff a duration is provided.
StartGiven == key.t = "object" /\ key.start # <<>> /\ key.start[1] > 0
DurationGiven == key.t = "object" /\ key.duration # <<>>
C9_TimeSpanPresence ==
  \A c \in 1..Len(createCalls) :
    LET input == createCalls[c].Input
    IN  /\ "TimeSpan" \in DOMAIN input <=> (StartGiven \/ DurationGiven)
        /\ "TimeSpan" \in DOMAIN input =>
             /\ "StartTime" \in DOMAIN input.TimeSpan <=> StartGiven
             /\ "Duration" \in DOMAIN input.TimeSpan <=> DurationGiven

\* C10 (as stated): every submitted output is { Key, PresetId } copied from
\* its descriptor, with a ThumbnailPattern iff the descriptor has a
\* thumbnailPattern, of the same value.
DescriptorOf(submitted) == CHOOSE d \in Descriptors : d.key = submitted.Key
SubmittedOutputs == UNION {{c.Outputs[j] : j \in 1..Len(c.Outputs)} :
                             c \in {createCalls[i] : i \in 1..Len(createCalls)}}
CopiesKeyAndPreset(o) ==
  /\ \E i \in 1..Len(outputs) : outputs[i] = DescriptorOf(o)
  /\ o.PresetId = DescriptorOf(o).presetId
  /\ DOMAIN o \subseteq {"Key", "PresetId", "ThumbnailPattern"}
  /\ "ThumbnailPattern" \in DOMAIN o => o.ThumbnailPattern = DescriptorOf(o).thumbnailPattern
C10_ThumbnailIffProvided ==
  \A o \in SubmittedOutputs :
    /\ CopiesKeyAndPreset(o)
    /\ "ThumbnailPattern" \in DOMAIN o <=> "thumbnailPattern" \in DOMAIN DescriptorOf(o)

\* C10 (amended): ... with a ThumbnailPattern iff the descriptor has a
\* non-empty thumbnailPattern, of the same value.
C10_ThumbnailIffNonEmpty ==
  \A o \in SubmittedOutputs :
    /\ CopiesKeyAndPreset(o)
    /\ "ThumbnailPattern" \in DOMAIN o <=>
         ("thumbnailPattern" \in DOMAIN DescriptorOf(o) /\ DescriptorOf(o).thumbnailPattern # "")
C10_Witness ==
  /\ Len(createCalls) = 1
  /\ Len(createCalls[1].Outputs) = 2
  /\ \E o \in SubmittedOutputs : "ThumbnailPattern" \in DOMAIN o
  /\ \E o \in SubmittedOutputs :
       "ThumbnailPattern" \notin DOMAIN o /\ "thumbnailPattern" \in DOMAIN DescriptorOf(o)

\* C11: a failing existence check (not found, or any other headObject error)
\* keeps the output: the error is not propagated, the job is submitted with
\* that output, and an output is dropped only when its check succeeded.
SubmittedKeys == {o.Key : o \in SubmittedOutputs}
FailedChecks == {i \in 1..Len(headResults) : headResults[i] \in HeadResults \ {"ok"}}
C11_FailedCheckKeepsOutput ==
  /\ (FailedChecks # {} /\ ~Filtered) => outcome = Pending
  /\ (FailedChecks # {} /\ Filtered) =>
       /\ Len(createCalls) = 1
       /\ \A i \in FailedChecks : outputs[i].key \in SubmittedKeys
  /\ Filtered =>
       \A i \in 1..Len(outputs) :
         outputs[i].key \notin SubmittedKeys => headResults[i] = "ok"
C11_Witness ==
  /\ Len(outputs) = 2
  /\ headResults = <<"NetworkingError", "NotFound">>
  /\ Len(createCalls) = 1
  /\ Len(createCalls[1].Outputs) = 2
  /\ outcome.kind = "resolved"

\* C12: without a check bucket the existence filter issues no headObject call
\* and returns the outputs unchanged, same elements in the same order.
C12_NoBucketNoFilter ==
  config.checkExistsInBucket = <<>> =>
    /\ headCalls = <<>>
    /\ (Filtered /\ outputs # <<>>) =>
         /\ Len(createCalls) = 1
         /\ Len(createCalls[1].Outputs) = Len(outputs)
         /\ \A j \in 1..Len(outputs) : createCalls[1].Outputs[j].Key = outputs[j].key
C12_Witness ==
  /\ config.checkExistsInBucket = <<>>
  /\ Len(outputs) = 2
  /\ headCalls = <<>>
  /\ Len(createCalls) = 1
  /\ Len(createCalls[1].Outputs) = 2

\* C13: with an empty outputs list, with or without a check bucket, the call
\* resolves to false and issues no headObject, createJob or readJob call.
C13_EmptyOutputsResolveFalse ==
  outputs = <<>> =>
    /\ headCalls = <<>>
    /\ createCalls = <<>>
    /\ readCalls = <<>>
    /\ pc \in {"start", "filtering", "done"}
    /\ pc = "done" => outcome = Resolved(JSFalse)
C13_Witness ==
  /\ outputs = <<>>
  /\ config.checkExistsInBucket # <<>>
  /\ pc = "done"
  /\ outcome = Resolved(JSFalse)

\* C14: when createJob fails the call rejects with that very error, createJob
\* has been called exactly once, and no delay or readJob is ever started.
CreateJobHasFailed == createResults # <<>> /\ ~createResults[1].ok
C14_CreateFailureRejects ==
  CreateJobHasFailed =>
    /\ pc = "done"
    /\ outcome = Rejected(createResults[1].error)
    /\ Len(createCalls) = 1
    /\ Len(createResults) = 1
    /\ waits = 0
    /\ readCalls = <<>>
C14_Witness ==
  /\ CreateJobHasFailed
  /\ outcome = Rejected(ThrottlingError)
  /\ Len(createCalls) = 1

\* C15: when a readJob call fails the call rejects with that very error, the
\* read is not retried, no further delay or readJob is started and onProgress
\* is not invoked for that iteration.
ReadJobHasFailed == reads # <<>> /\ ~LastRead.ok
C15_ReadFailureRejects ==
  ReadJobHasFailed =>
    /\ pc = "done"
    /\ outcome = Rejected(LastRead.error)
    /\ Len(readCalls) = Len(reads)
    /\ waits = Len(reads)
    /\ NonTerminalAt = 1..(Len(reads) - 1)
    /\ Len(progress) = IF IsFunction(config.onProgress) THEN Len(reads) - 1 ELSE 0
C15_Witness ==
  /\ ReadJobHasFailed
  /\ Len(reads) = 2
  /\ config.onProgress = "function"
  /\ Len(progress) = 1
  /\ outcome = Rejected(ThrottlingError)

\* C16: createJob is called at most once per invocation, and exactly once
\* when the filtered output list is not empty, whatever the later outcome.
C16_CreateJobOnce ==
  /\ Len(createCalls) <= 1
  /\ Filtered => (Len(createCalls) = 1 <=> NotExisting # {})
C16_Witness ==
  /\ Len(createCalls) = 1
  /\ LastStatusIs("Error")
  /\ Len(reads) = 2
  /\ pc = "done"

\* C17 (as stated): once the job is submitted the call completes only when a
\* read returned Complete, Error or Canceled or when a read failed; after any
\* number of consecutive non-terminal reads it is still pending and goes on
\* to wait and read again.
JobSubmitted == createResults # <<>> /\ createResults[1].ok
LastReadEndsPolling ==
  reads # <<>> /\ (~LastRead.ok \/ LastRead.Job.Status \in TerminalStatuses)
LastReadNonTerminal ==
  reads # <<>> /\ LastRead.ok /\ LastRead.Job.Status \notin TerminalStatuses
StillPolling ==
  /\ outcome = Pending
  /\ pc \in {"waiting", "reading"}
  /\ waits = Len(reads) + 1
C17_EndsOnlyOnTerminalOrFailure ==
  JobSubmitted =>
    /\ pc = "done" => LastReadEndsPolling
    /\ LastReadNonTerminal => StillPolling

\* C17 (amended): ... or when onProgress threw for a non-terminal read; after
\* any number of consecutive non-terminal reads whose onProgress call, if
\* any, returned, it is still pending and goes on to wait and read again.
CallbackThrew == LastReadNonTerminal /\ config.onProgress = "throwing"
C17_EndsOnlyOnTerminalFailureOrThrow ==
  JobSubmitted =>
    /\ pc = "done" => (LastReadEndsPolling \/ CallbackThrew)
    /\ (LastReadNonTerminal /\ ~CallbackThrew) => StillPolling
    /\ CallbackThrew => (pc = "done" /\ outcome = Rejected(CallbackError))
C17_Witness ==
  /\ JobSubmitted
  /\ Len(reads) = MaxPolls
  /\ NonTerminalAt = 1..MaxPolls
  /\ config.onProgress = "function"
  /\ pc = "reading"
  /\ Len(readCalls) = MaxPolls + 1
  /\ outcome = Pending

\* the scheduling the poll loop relies on: the event loop resumes a settled
\* continuation, every collaborator call and every delay eventually returns
\* (the read guard makes the collaborator answer a terminal status or a
\* failure after at most MaxPolls non-terminal answers)
Fairness ==
  /\ WF_vars(\E i \in 1..MaxOutputs, result \in HeadResults : HeadObjectReturns(i, result))
  /\ WF_vars(FilterSettled)
  /\ WF_vars(\E resp \in CreateResponses : CreateJobReturns(resp))
  /\ WF_vars(DelayElapsed)
  /\ WF_vars(\E resp \in ReadResponses : ReadJobReturns(resp))
LiveSpec == Init /\ [][Next]_vars /\ Fairness

\* C18: if every collaborator call and every delay eventually returns and the
\* collaborator eventually answers a read with a terminal status or a
\* failure, every invocation eventually resolves or rejects.
C18_EventuallySettles == (pc # "start") ~> (outcome # Pending)
C18_Witness ==
  /\ pc = "done"
  /\ Len(reads) = MaxPolls + 1
  /\ outcome.kind = "resolved"

ReadGuardNeverBinds == pc = "reading" => Len(reads) <= MaxPolls

\* C20: with several existence checks in flight at once, the filter's result
\* is the same for every order in which they settle: the outputs whose check
\* did not succeed, in input order, as if checked one after another.
RECURSIVE CheckedOneByOne(_)
CheckedOneByOne(n) ==
  IF n = 0 THEN <<>>
  ELSE IF headResults[n] = "ok" THEN CheckedOneByOne(n - 1)
  ELSE Append(CheckedOneByOne(n - 1), outputs[n].key)
FilterResumes == pc = "filtering" /\ pc' # "filtering"
C20_SettlingOrderIrrelevant ==
  [][FilterResumes =>
       LET expected == CheckedOneByOne(Len(outputs))
       IN  IF expected = <<>>
             THEN createCalls' = <<>> /\ outcome' = Resolved(JSFalse)
             ELSE /\ Len(createCalls') = 1
                  /\ [j \in 1..Len(createCalls'[1].Outputs) |-> createCalls'[1].Outputs[j].Key]
                       = expected]_vars
C20_Witness ==
  /\ pc = "filtering"
  /\ Len(outputs) = 2
  /\ headOrder = <<2, 1>>
  /\ headResults = <<"NotFound", "NetworkingError">>
  /\ ENABLED FilterSettled

\* ================================================== concurrent invocations
\* two callers invoke the exported transcode() against the same S3 and
\* Elastic Transcoder services; their steps interleave at every await
CallIds == {1, 2}

\* what each caller passes: its own input key, output list and config object
CallKey(c) == StringInput(IF c = 1 THEN "in/a.avi" ELSE "in/b.avi")
CallOutputs(c) ==
  IF c = 1 THEN <<[key |-> "out/1.mp4", presetId |-> "P1"]>>
  ELSE <<[key |-> "out/2.mp4", presetId |-> "P2", thumbnailPattern |-> "thumb_{count}"]>>
CallConfigs(c) ==
  [checkExistsInBucket : Buckets, onProgress : ProgressCallbacks,
   pipelineId : {IF c = 1 THEN "PIPELINE-A" ELSE "PIPELINE-B"}]

\* the answers the shared services give while two invocations run
CallHeadResults == {"ok", "NotFound"}
CallReadResponses ==
  {[ok |-> TRUE, Job |-> [Status |-> "Progressing"]],
   [ok |-> TRUE, Job |-> [Status |-> "Complete",
                          Output |-> [Key |-> "out/1.mp4", DurationMillis |-> 123]]],
   [ok |-> TRUE, Job |-> [Status |-> "Canceled"]],
   [ok |-> FALSE, error |-> ServiceError]}
CallCreateOutcomes == {[ok |-> TRUE], [ok |-> FALSE, error |-> ServiceError]}

\* const transcoder = new AwsTranscoder(config): every call constructs its
\* own instance
InstanceOfShared(c) == 1
InstanceOf(c) == c

\* this.config of the instance the invocation c runs on: the constructor
\* stores a reference to the config object of the caller that built it
ThisConfig(c) == calls[instances[calls[c].inst]].config

\* the caller whose onProgress function that config refers to
ThisCallbackOwner(c) == instances[calls[c].inst]

ConcInit ==
  /\ key = StringInput("in/a.avi")
  /\ outputs = <<>>
  /\ config = [checkExistsInBucket |-> <<>>, onProgress |-> "none", pipelineId |-> "PIPELINE-A"]
  /\ pc = "start"
  /\ headCalls = <<>>
  /\ headResults = <<>>
  /\ headOrder = <<>>
  /\ createCalls = <<>>
  /\ createResults = <<>>
  /\ jobId = <<>>
  /\ waits = 0
  /\ readCalls = <<>>
  /\ reads = <<>>
  /\ progress = <<>>
  /\ outcome = Pending
  /\ \E cfg1 \in CallConfigs(1), cfg2 \in CallConfigs(2) :
       calls = [c \in CallIds |->
                  [key |-> CallKey(c), outputs |-> CallOutputs(c),
                   config |-> IF c = 1 THEN cfg1 ELSE cfg2,
                   inst |-> 0, pc |-> "start", headResults |-> <<>>,
                   createCalls |-> <<>>, createResults |-> <<>>, jobId |-> <<>>,
                   readCalls |-> <<>>, reads |-> <<>>, progress |-> <<>>,
                   outcome |-> Pending]]
  /\ instances = [i \in CallIds |-> 0]
  /\ jobsCreated = 0
  /\ store = {}
  /\ storeChanged = FALSE
  /\ filterOutputs = <<>>
  /\ filterConfig = [checkExistsInBucket |-> <<>>]
  /\ filterPc = "idle"
  /\ filterResults = <<>>
  /\ filterOrder = <<>>
  /\ filterFailed = FALSE
  /\ filterReturned = <<>>

\* caller c invokes transcode(key, outputs, config): a new AwsTranscoder is
\* constructed around its config and the existence checks start
CallTranscode(c) ==
  /\ calls[c].pc = "start"
  /\ LET inst == InstanceOf(c)
         cfg == calls[c].config
     IN  /\ instances' = [instances EXCEPT ![inst] = c]
         /\ calls' = [calls EXCEPT ![c] =
              [@ EXCEPT !.inst = inst,
                        !.pc = "filtering",
                        !.headResults =
                           [i \in 1..Len(calls[c].outputs) |->
                              IF IssuesHeadObject(cfg) THEN "pending" ELSE "skipped"]]]
  /\ UNCHANGED jobsCreated
  /\ UNCHANGED <<solo, refilter>>

\* one headObject call of invocation c settles
CallHeadObjectReturns(c, i, result) ==
  /\ calls[c].pc = "filtering"
  /\ i \in 1..Len(calls[c].headResults)
  /\ calls[c].headResults[i] = "pending"
  /\ calls' = [calls EXCEPT ![c].headResults[i] = result]
  /\ UNCHANGED <<instances, jobsCreated>>
  /\ UNCHANGED <<solo, refilter>>

\* the checks of invocation c have settled: it returns false or issues createJob
CallFilterSettled(c) ==
  /\ calls[c].pc = "filtering"
  /\ ChecksSettled(calls[c].headResults)
  /\ LET filteredOutputs == FilteredOutputs(calls[c].outputs, calls[c].headResults, <<>>)
     IN  IF NothingToTranscode(filteredOutputs)
           THEN calls' = [calls EXCEPT ![c] =
                            [@ EXCEPT !.outcome = Resolved(JSFalse), !.pc = "done"]]
           ELSE calls' = [calls EXCEPT ![c] =
                            [@ EXCEPT !.createCalls =
                                         Append(@, CreateJobParams(calls[c].key, filteredOutputs,
                                                                   ThisConfig(c))),
                                      !.pc = "creating"]]
  /\ UNCHANGED <<instances, jobsCreated>>
  /\ UNCHANGED <<solo, refilter>>

\* the createJob of invocation c settles: the service numbers the jobs it creates
CallCreateJobReturns(c, resp) ==
  /\ calls[c].pc = "creating"
  /\ IF resp.ok
       THEN /\ jobsCreated' = jobsCreated + 1
            /\ calls' = [calls EXCEPT ![c] =
                 [@ EXCEPT !.createResults = Append(@, [ok |-> TRUE, Id |-> jobsCreated + 1]),
                           !.jobId = <<jobsCreated + 1>>,
                           !.pc = "waiting"]]
       ELSE /\ calls' = [calls EXCEPT ![c] =
                 [@ EXCEPT !.createResults = Append(@, resp),
                           !.outcome = CreateJobFailed(resp.error),
                           !.pc = "done"]]
            /\ UNCHANGED jobsCreated
  /\ UNCHANGED instances
  /\ UNCHANGED <<solo, refilter>>

\* the delay of invocation c elapsed: it issues readJob({ Id: jobId })
CallDelayElapsed(c) ==
  /\ calls[c].pc = "waiting"
  /\ calls' = [calls EXCEPT ![c] =
                 [@ EXCEPT !.readCalls = Append(@, [Id |-> calls[c].jobId[1]]),
                           !.pc = "reading"]]
  /\ UNCHANGED <<instances, jobsCreated>>
  /\ UNCHANGED <<solo, refilter>>

CallNonTerminalReads(c) ==
  Cardinality({i \in 1..Len(calls[c].reads) :
                 calls[c].reads[i].ok /\ calls[c].reads[i].Job.Status \in NonTerminalStatuses})

\* the readJob of invocation c settles: checkJobStatus runs with this.config,
\* and the onProgress function of that config receives the notification
CallReadJobReturns(c, resp) ==
  /\ calls[c].pc = "reading"
  /\ Len(calls[c].reads) <= MaxPolls
  /\ (resp.ok /\ resp.Job.Status \in NonTerminalStatuses) => CallNonTerminalReads(c) < MaxPolls
  /\ LET r == IF resp.ok THEN CheckJobStatus(calls[c].key, resp.Job, ThisConfig(c))
              ELSE [throws |-> TRUE, error |-> ReadJobFailed(resp.error).error, notified |-> <<>>]
         settled == IF r.throws THEN Rejected(r.error)
                    ELSE IF LoopReturns(r.value) THEN Resolved(r.value)
                    ELSE Pending
         self == [calls[c] EXCEPT !.reads = Append(@, resp),
                                  !.outcome = settled,
                                  !.pc = IF settled = Pending THEN "waiting" ELSE "done"]
     IN  calls' = [d \in CallIds |->
                     LET base == IF d = c THEN self ELSE calls[d]
                     IN  IF d = ThisCallbackOwner(c)
                           THEN [base EXCEPT !.progress = @ \o r.notified]
                           ELSE base]
  /\ UNCHANGED <<instances, jobsCreated>>
  /\ UNCHANGED <<solo, refilter>>

ConcNext ==
  \/ \E c \in CallIds : CallTranscode(c)
  \/ \E c \in CallIds, i \in 1..MaxOutputs, result \in CallHeadResults :
       CallHeadObjectReturns(c, i, result)
  \/ \E c \in CallIds : CallFilterSettled(c)
  \/ \E c \in CallIds, resp \in CallCreateOutcomes : CallCreateJobReturns(c, resp)
  \/ \E c \in CallIds : CallDelayElapsed(c)
  \/ \E c \in CallIds, resp \in CallReadResponses : CallReadJobReturns(c, resp)

ConcSpec == ConcInit /\ [][ConcNext]_vars

\* what invocation c would notify and how it would settle had it run alone:
\* computed from its own arguments, its own config and the answers to its
\* own requests only
RECURSIVE OwnNotifications(_, _)
OwnNotifications(me, n) ==
  IF n = 0 THEN <<>>
  ELSE OwnNotifications(me, n - 1)
         \o (IF me.reads[n].ok THEN CheckJobStatus(me.key, me.reads[n].Job, me.config).notified
             ELSE <<>>)

OwnOutcome(me) ==
  IF me.createResults = <<>> THEN Resolved(JSFalse)
  ELSE IF ~me.createResults[1].ok THEN Rejected(me.createResults[1].error)
  ELSE LET last == me.reads[Len(me.reads)]
       IN  IF ~last.ok THEN Rejected(last.error)
           ELSE LET r == CheckJobStatus(me.key, last.Job, me.config)
                IN  IF r.throws THEN Rejected(r.error) ELSE Resolved(r.value)

OwnFiltered(me) == MaybeRemoveExistingOutputs(me.outputs, me.headResults)

CallIndependent(c) ==
  LET me == calls[c]
  IN  /\ me.pc # "start" =>
           \A i \in 1..Len(me.headResults) :
             (me.headResults[i] = "skipped") <=> ~IssuesHeadObject(me.config)
      /\ Len(me.createCalls) <= 1
      /\ me.createCalls # <<>> =>
           me.createCalls[1] = CreateJobParams(me.key, OwnFiltered(me), me.config)
      /\ me.pc \notin {"start", "filtering"} =>
           (me.createCalls = <<>>) <=> (OwnFiltered(me) = <<>>)
      /\ \A i \in 1..Len(me.readCalls) : me.jobId # <<>> /\ me.readCalls[i].Id = me.jobId[1]
      /\ \A d \in CallIds \ {c} :
           me.jobId # <<>> /\ calls[d].jobId # <<>> => me.jobId # calls[d].jobId
      /\ me.progress = OwnNotifications(me, Len(me.reads))
      /\ me.pc = "done" => me.outcome = OwnOutcome(me)
      /\ me.pc # "done" => me.outcome = Pending

\* a step changes the state of at most one invocation
OneCallPerStep ==
  \A c \in CallIds, d \in CallIds : c # d /\ calls'[c] # calls[c] => calls'[d] = calls[d]

\* C19: two invocations of transcode interleaved in any way against the same
\* services each submit their own job (own key, own retained outputs, own
\* pipeline), read only the job their own createJob returned, and notify and
\* settle exactly as their own arguments, config and answers determine; no
\* step of one changes the state of the other
C19_InvocationsIndependent ==
  /\ [](\A c \in CallIds : CallIndependent(c))
  /\ [][OneCallPerStep]_vars

\* both invocations ran to completion with their steps interleaved: the
\* first caller's job was created after the second caller's, both were
\* notified of progress and both resolved to a duration
C19_Witness ==
  /\ calls[1].pc = "done" /\ calls[2].pc = "done"
  /\ calls[1].jobId = <<2>> /\ calls[2].jobId = <<1>>
  /\ Len(calls[1].progress) = 1 /\ Len(calls[2].progress) = MaxPolls
  /\ calls[1].outcome = Resolved(JSNumber(123))
  /\ calls[2].outcome = Resolved(JSNumber(123))

\* ================================================ the existence filter, twice
\* maybeRemoveExistingOutputs is called MaxRuns times, one run after the
\* other, with the same outputs on the same instance, against a bucket whose
\* content may change once
MaxRuns == 2
OutputKeys == {d.key : d \in Descriptors}

\* what s3.headObject({ Bucket, Key }) can answer for a bucket holding the
\* given objects: success or NotFound by content, or a failure of the request
HeadObjectAnswers(objects, k) ==
  IF k \in objects THEN {"ok", "NetworkingError"} ELSE {"NotFound", "NetworkingError"}

FilterInit ==
  /\ key = StringInput("in/a.avi")
  /\ outputs = <<>>
  /\ config = [checkExistsInBucket |-> <<>>, onProgress |-> "none", pipelineId |-> "PIPELINE-A"]
  /\ pc = "start"
  /\ headCalls = <<>>
  /\ headResults = <<>>
  /\ headOrder = <<>>
  /\ createCalls = <<>>
  /\ createResults = <<>>
  /\ jobId = <<>>
  /\ waits = 0
  /\ readCalls = <<>>
  /\ reads = <<>>
  /\ progress = <<>>
  /\ outcome = Pending
  /\ calls = <<>>
  /\ instances = <<>>
  /\ jobsCreated = 0
  /\ store \in SUBSET OutputKeys
  /\ storeChanged = FALSE
  /\ filterOutputs \in OutputLists(MaxOutputs)
  /\ filterConfig \in [checkExistsInBucket : Buckets]
  /\ filterPc = "idle"
  /\ filterResults = <<>>
  /\ filterOrder = <<>>
  /\ filterFailed = FALSE
  /\ filterReturned = <<>>

\* maybeRemoveExistingOutputs(outputs) is called: the reduce starts the check
\* of every output
FilterCalled ==
  /\ filterPc = "idle"
  /\ Len(filterReturned) < MaxRuns
  /\ filterPc' = "checking"
  /\ filterResults' = [i \in 1..Len(filterOutputs) |->
                         IF IssuesHeadObject(filterConfig) THEN "pending" ELSE "skipped"]
  /\ filterOrder' = <<>>
  /\ UNCHANGED <<store, storeChanged, filterOutputs, filterConfig, filterFailed, filterReturned>>
  /\ UNCHANGED <<solo, conc>>

\* one headObject call of the running filter settles with what the bucket holds
FilterHeadObjectReturns(i, result) ==
  /\ filterPc = "checking"
  /\ i \in 1..Len(filterResults)
  /\ filterResults[i] = "pending"
  /\ result \in HeadObjectAnswers(store, filterOutputs[i].key)
  /\ filterResults' = [filterResults EXCEPT ![i] = result]
  /\ filterOrder' = Append(filterOrder, i)
  /\ filterFailed' = (filterFailed \/ result = "NetworkingError")
  /\ UNCHANGED <<store, storeChanged, filterOutputs, filterConfig, filterPc, filterReturned>>
  /\ UNCHANGED <<solo, conc>>

\* every check has settled: the filter returns its list
FilterReturns ==
  /\ filterPc = "checking"
  /\ ChecksSettled(filterResults)
  /\ filterReturned' =
       Append(filterReturned, FilteredOutputs(filterOutputs, filterResults, filterOrder))
  /\ filterPc' = "idle"
  /\ filterResults' = <<>>
  /\ filterOrder' = <<>>
  /\ UNCHANGED <<store, storeChanged, filterOutputs, filterConfig, filterFailed>>
  /\ UNCHANGED <<solo, conc>>

\* somebody else puts or deletes an object of the bucket
StoreChanges(k) ==
  /\ ~storeChanged
  /\ filterPc = "checking" \/ filterReturned # <<>>
  /\ Len(filterReturned) < MaxRuns
  /\ store' = IF k \in store THEN store \ {k} ELSE store \cup {k}
  /\ storeChanged' = TRUE
  /\ UNCHANGED <<filterOutputs, filterConfig, filterPc, filterResults, filterOrder,
                 filterFailed, filterReturned>>
  /\ UNCHANGED <<solo, conc>>

FilterNext ==
  \/ FilterCalled
  \/ \E i \in 1..MaxOutputs, result \in HeadResults : FilterHeadObjectReturns(i, result)
  \/ FilterReturns
  \/ \E k \in OutputKeys : StoreChanges(k)

FilterSpec == FilterInit /\ [][FilterNext]_vars

\* the runs that have returned agree on their list
RunsAgree == \A m \in 1..Len(filterReturned), n \in 1..Len(filterReturned) :
               filterReturned[m] = filterReturned[n]

IssuesReadJob == Len(readCalls') > Len(readCalls)

\* C22: within one invocation at most one readJob is outstanding, and waits
\* and reads alternate: the n-th readJob is issued only when the n-th wait
\* has elapsed, and the n-th wait starts only when read n-1 has completed
\* (the first wait when createJob has)
C22_WaitsAndReadsAlternate ==
  /\ [](/\ Len(reads) <= Len(readCalls)
        /\ Len(readCalls) <= Len(reads) + 1
        /\ Len(readCalls) <= waits
        /\ waits <= Len(reads) + 1
        /\ pc = "waiting" <=> waits = Len(readCalls) + 1
        /\ pc = "reading" <=> Len(readCalls) = Len(reads) + 1)
  /\ [][IssuesReadJob =>
          /\ pc = "waiting"
          /\ Len(readCalls') = Len(readCalls) + 1
          /\ Len(readCalls') = waits]_vars

\* the wait that follows the last non-terminal read has started and its read
\* is not issued yet
C22_Witness ==
  /\ pc = "waiting"
  /\ waits = MaxPolls + 1
  /\ Len(readCalls) = MaxPolls
  /\ Len(reads) = MaxPolls

\* C23: within one invocation every headObject check has settled before
\* createJob is issued, createJob has answered before the first wait and the
\* first readJob, and every readJob carries the Id that createJob returned
C23_CallsOrdered ==
  /\ createCalls # <<>> =>
       /\ Len(headResults) = Len(outputs)
       /\ \A i \in 1..Len(headResults) : headResults[i] # "pending"
  /\ (waits > 0 \/ readCalls # <<>>) => JobSubmitted
  /\ \A i \in 1..Len(readCalls) : readCalls[i] = [Id |-> createResults[1].Id]

\* an invocation that checked two outputs, submitted the missing one and
\* read its job twice
C23_Witness ==
  /\ pc = "done"
  /\ headResults = <<"ok", "NotFound">>
  /\ Len(createCalls) = 1
  /\ JobSubmitted
  /\ Len(readCalls) = 2
  /\ Len(reads) = 2
  /\ outcome.kind = "resolved"

\* C24: a read that observes Complete ends the poll loop on that read
\* whatever DurationMillis is: 0 resolves to the number 0, not to false, and
\* an absent Output or DurationMillis resolves to undefined; no further read
\* is issued and the call does not reject
CompleteValue == DurationOf(OutputOf(LastRead.Job))
C25_ThrowingCallbackRejects ==
  CallbackThrew =>
    /\ pc = "done"
    /\ outcome = Rejected(CallbackError)
    /\ Len(readCalls) = Len(reads)
    /\ waits = Len(reads)
    /\ progress = <<[status |-> LastRead.Job.Status]>>

\* the first read answered Progressing, onProgress threw and the call rejected
C25_Witness ==
  /\ CallbackThrew
  /\ Len(reads) = 1
  /\ LastRead.Job.Status = "Progressing"
  /\ outcome = Rejected(CallbackError)
  /\ waits = 1
====
